---------------------------- MODULE Spec2Model ----------------------------
(***************************************************************************)
(* A model of src/src/game_companion.py: the conversation history of       *)
(* GameState (add_to_history), the choice parser (extract_choices), the    *)
(* typing reveal (display_text_with_typing), and the single coroutine that *)
(* runs game_loop, process_choice and get_ai_response.                     *)
(*                                                                         *)
(* Text is a TLA+ string; one character is a string of length 1.  The      *)
(* bullet character U+2022 of extract_choices is written "@" here, since   *)
(* a module holds ASCII only; no modelled text uses "@" otherwise.         *)
(***************************************************************************)
EXTENDS Integers, Sequences, FiniteSets, TLC

VARIABLES
    current_scene,      \* GameState.current_scene
    choices_made,       \* GameState.choices_made: scene id -> chosen text
    sanity,             \* GameState.sanity
    message_history,    \* GameState.message_history: sequence of turns
    current_text,       \* GameState.current_text (the display buffer)
    current_choices,    \* GameState.current_choices
    is_typing,          \* GameState.is_typing
    input_text,         \* GameState.input_text
    input_active,       \* GameState.input_active
    voice_active,       \* GameState.voice_active
    is_processing,      \* GameState.is_processing
    running,            \* game_loop's local `running`
    speech_enabled,     \* SPEECH_ENABLED, fixed when the module is loaded
    pc,                 \* where the one coroutine (main -> game_loop -> ...) stands
    caller,             \* which call of get_ai_response is being awaited
    ai_message,         \* the text being parsed or revealed
    reveal,             \* number of characters display_text_with_typing has shown
    sent,               \* `messages` of the last request to the model provider
    user_input,         \* the argument of the last get_ai_response call
    queue,              \* pygame's event queue: events posted and not yet polled
    batch,              \* what game_loop's pygame.event.get() returned, not yet handled
    posted,             \* number of events the player has caused so far
    appended,           \* history: every turn passed to add_to_history by AppendTurn
    returned,           \* history: how the last get_ai_response ended
    submits,            \* history: number of get_ai_response calls started
    choice_calls,       \* history: number of process_choice calls started
    script              \* the roles AppendTurn passes first

storyVars == <<current_scene, choices_made, sanity>>

displayVars == <<current_text, current_choices, is_typing, is_processing>>

inputVars == <<input_text, input_active, voice_active>>

coVars == <<running, pc, caller, ai_message, reveal, sent, user_input>>

envVars == <<speech_enabled, queue, batch, posted>>

logVars == <<returned, submits, choice_calls>>

vars == <<storyVars, message_history, displayVars, inputVars, coVars, envVars,
          logVars, appended, script>>

-----------------------------------------------------------------------------
(* Python string operations used by the source. *)

\* s[i] of Python, 1-based here.
CharAt(s, i) == SubSeq(s, i, i)

\* The characters str.strip() removes that the modelled texts can hold.
Whitespace == {" ", "\t", "\r", "\n"}

\* sub in s
Contains(s, sub) ==
    \E i \in 1..(Len(s) - Len(sub) + 1) : SubSeq(s, i, i + Len(sub) - 1) = sub

\* s.startswith(prefix)
StartsWith(s, prefix) ==
    Len(s) >= Len(prefix) /\ SubSeq(s, 1, Len(prefix)) = prefix

\* s[n:]
DropChars(s, n) == SubSeq(s, n + 1, Len(s))

RECURSIVE LStrip(_)
LStrip(s) ==
    IF Len(s) > 0 /\ CharAt(s, 1) \in Whitespace THEN LStrip(DropChars(s, 1)) ELSE s

RECURSIVE RStrip(_)
RStrip(s) ==
    IF Len(s) > 0 /\ CharAt(s, Len(s)) \in Whitespace
    THEN RStrip(SubSeq(s, 1, Len(s) - 1)) ELSE s

\* s.strip()
Strip(s) == RStrip(LStrip(s))

RECURSIVE SplitFrom(_, _, _)
SplitFrom(s, start, i) ==
    IF i > Len(s) THEN <<SubSeq(s, start, Len(s))>>
    ELSE IF CharAt(s, i) = "\n"
         THEN <<SubSeq(s, start, i - 1)>> \o SplitFrom(s, i + 1, i + 1)
         ELSE SplitFrom(s, start, i + 1)

\* text.split('\n')
SplitLines(s) == SplitFrom(s, 1, 1)

\* Index of the first ":" of a line that holds one.
FirstColon(line) ==
    CHOOSE i \in 1..Len(line) :
        CharAt(line, i) = ":" /\ \A j \in 1..(i - 1) : CharAt(line, j) # ":"

\* line.split(":", 1)[1]
AfterFirstColon(line) == DropChars(line, FirstColon(line))

\* seq[:n]
Take(seq, n) == SubSeq(seq, 1, IF Len(seq) < n THEN Len(seq) ELSE n)

-----------------------------------------------------------------------------
(* extract_choices *)

DefaultChoices == <<"Continue the story", "Ask what's happening">>

\* The first loop splitting at the last colon of a line (rsplit) instead of the first.
TaggedChoicesLastColon(text) ==
    LET HasTag(line) == Contains(line, "CHOICE ") /\ Contains(line, ":")
        LastColon(line) ==
            CHOOSE i \in 1..Len(line) :
                CharAt(line, i) = ":" /\ \A j \in (i + 1)..Len(line) : CharAt(line, j) # ":"
        Payload(line) == Strip(DropChars(line, LastColon(line)))
        kept == SelectSeq(SplitLines(text), HasTag)
    IN  [i \in 1..Len(kept) |-> Payload(kept[i])]

\* The first loop: lines holding "CHOICE " and a colon give what follows the colon.
TaggedChoices(text) ==
    LET HasTag(line) == Contains(line, "CHOICE ") /\ Contains(line, ":")
        Payload(line) == Strip(AfterFirstColon(line))
        kept == SelectSeq(SplitLines(text), HasTag)
    IN  [i \in 1..Len(kept) |-> Payload(kept[i])]

IsBullet(line) ==
    \/ StartsWith(Strip(line), "- ")
    \/ StartsWith(Strip(line), "@ ")
    \/ StartsWith(Strip(line), "* ")

\* The second loop: bulleted lines give what follows the 2-character prefix.
BulletChoices(text) ==
    LET Payload(line) == Strip(DropChars(Strip(line), 2))
        kept == SelectSeq(SplitLines(text), IsBullet)
    IN  [i \in 1..Len(kept) |-> Payload(kept[i])]

IsNumbered(line) ==
    \/ StartsWith(Strip(line), "1. ")
    \/ StartsWith(Strip(line), "2. ")

\* The third loop: numbered lines give what follows the 3-character prefix.
NumberedChoices(text) ==
    LET Payload(line) == Strip(DropChars(Strip(line), 3))
        kept == SelectSeq(SplitLines(text), IsNumbered)
    IN  [i \in 1..Len(kept) |-> Payload(kept[i])]

\* The tiers guarded by `if len(choices) < 2` instead of `if not choices`.
CollectedChoicesEager(text) ==
    LET c1 == TaggedChoices(text)
        c2 == IF Len(c1) < 2 THEN c1 \o BulletChoices(text) ELSE c1
        c3 == IF Len(c2) < 2 THEN c2 \o NumberedChoices(text) ELSE c2
    IN  c3

\* The value of `choices` when the fallback test is reached.
CollectedChoices(text) ==
    LET c1 == TaggedChoices(text)
        c2 == IF c1 = <<>> THEN BulletChoices(text) ELSE c1
        c3 == IF c2 = <<>> THEN NumberedChoices(text) ELSE c2
    IN  c3

\* extract_choices returning `choices` instead of `choices[:2]`.
extract_choices_untruncated(text) ==
    LET c3 == CollectedChoices(text)
    IN  IF Len(c3) < 2 THEN DefaultChoices ELSE c3

extract_choices(text) ==
    LET c3 == CollectedChoices(text)
        c4 == IF Len(c3) < 2 THEN DefaultChoices ELSE c3
    IN  Take(c4, 2)

-----------------------------------------------------------------------------
(* GameState.__init__ and GameState.add_to_history *)

HistoryCap == 20

Roles == {"system", "user", "assistant"}

Turn(role, content) == [role |-> role, content |-> content]

IsSystem(msg) == msg.role = "system"

NotSystem(msg) == msg.role # "system"

\* The while loop of add_to_history: other_messages.pop(0) as long as the two
\* lists together hold more than the cap and other_messages is not empty.
RECURSIVE TrimOldest(_, _)
TrimOldest(system_messages, other_messages) ==
    IF Len(system_messages) + Len(other_messages) > HistoryCap /\ other_messages # <<>>
    THEN TrimOldest(system_messages, Tail(other_messages))
    ELSE other_messages

\* The loop stopping at the last non-system turn.
RECURSIVE TrimOldestKeepOne(_, _)
TrimOldestKeepOne(system_messages, other_messages) ==
    IF Len(system_messages) + Len(other_messages) > HistoryCap /\ Len(other_messages) > 1
    THEN TrimOldestKeepOne(system_messages, Tail(other_messages))
    ELSE other_messages

\* The loop with a cap one too large.
RECURSIVE TrimOldestLate(_, _)
TrimOldestLate(system_messages, other_messages) ==
    IF Len(system_messages) + Len(other_messages) > HistoryCap + 1 /\ other_messages # <<>>
    THEN TrimOldestLate(system_messages, Tail(other_messages))
    ELSE other_messages

\* The loop with other_messages.pop() for other_messages.pop(0).
RECURSIVE TrimNewest(_, _)
TrimNewest(system_messages, other_messages) ==
    IF Len(system_messages) + Len(other_messages) > HistoryCap /\ other_messages # <<>>
    THEN TrimNewest(system_messages, SubSeq(other_messages, 1, Len(other_messages) - 1))
    ELSE other_messages

add_to_history_late(history, role, content) ==
    LET h == Append(history, Turn(role, content))
        system_messages == SelectSeq(h, IsSystem)
        other_messages == SelectSeq(h, NotSystem)
    IN  IF Len(h) > HistoryCap
        THEN system_messages \o TrimOldestLate(system_messages, other_messages)
        ELSE h

add_to_history_keep_one(history, role, content) ==
    LET h == Append(history, Turn(role, content))
        system_messages == SelectSeq(h, IsSystem)
        other_messages == SelectSeq(h, NotSystem)
    IN  IF Len(h) > HistoryCap
        THEN system_messages \o TrimOldestKeepOne(system_messages, other_messages)
        ELSE h

add_to_history_newest(history, role, content) ==
    LET h == Append(history, Turn(role, content))
        system_messages == SelectSeq(h, IsSystem)
        other_messages == SelectSeq(h, NotSystem)
    IN  IF Len(h) > HistoryCap
        THEN system_messages \o TrimNewest(system_messages, other_messages)
        ELSE h

\* The value of message_history after add_to_history(role, content) on `history`.
add_to_history(history, role, content) ==
    LET h == Append(history, Turn(role, content))
        system_messages == SelectSeq(h, IsSystem)
        other_messages == SelectSeq(h, NotSystem)
    IN  IF Len(h) > HistoryCap
        THEN system_messages \o TrimOldest(system_messages, other_messages)
        ELSE h

\* The fields GameState.__init__ sets, and the coroutine before it has run.
GameStateInit ==
    /\ current_scene = "intro"
    /\ choices_made = [scene \in {} |-> ""]
    /\ sanity = 100
    /\ message_history = <<>>
    /\ current_text = ""
    /\ current_choices = <<>>
    /\ is_typing = FALSE
    /\ input_text = ""
    /\ input_active = FALSE
    /\ voice_active = FALSE
    /\ is_processing = FALSE

\* The coroutine and its surroundings where a specification leaves them unused.
Parked(at) ==
    /\ running = TRUE
    /\ speech_enabled = FALSE
    /\ pc = at
    /\ caller = "none"
    /\ reveal = 0
    /\ sent = <<>>
    /\ user_input = ""
    /\ queue = <<>>
    /\ batch = <<>>
    /\ posted = 0
    /\ returned = "none"
    /\ submits = 0
    /\ choice_calls = 0

-----------------------------------------------------------------------------
(* SpecHistory: a caller that only calls add_to_history, from an empty      *)
(* history.  Its first WarmUp calls repeat a pattern of roles fixed at the  *)
(* start; after them every call takes any role, MaxFree times.  The n-th    *)
(* call passes the content "m<n>", so that no two turns are equal.          *)

WarmUp == 17

MaxFree == 5

MaxPattern == 3

Patterns == UNION {[1..n -> Roles] : n \in 1..MaxPattern}

Repeat(p, n) == [i \in 1..n |-> p[((i - 1) % Len(p)) + 1]]

InitHistory ==
    /\ GameStateInit
    /\ Parked("history")
    /\ ai_message = ""
    /\ appended = <<>>
    /\ script \in {Repeat(p, WarmUp) : p \in Patterns}

AppendTurn ==
    /\ pc = "history"
    /\ Len(appended) < Len(script) + MaxFree
    /\ \E role \in Roles :
        /\ Len(appended) < Len(script) => role = script[Len(appended) + 1]
        /\ LET content == "m" \o ToString(Len(appended) + 1)
           IN  /\ message_history' = add_to_history(message_history, role, content)
               /\ appended' = Append(appended, Turn(role, content))
    /\ UNCHANGED <<storyVars, displayVars, inputVars, coVars, envVars, logVars, script>>

NextHistory == AppendTurn

SpecHistory == InitHistory /\ [][NextHistory]_vars

\* True when seq is the last Len(seq) elements of all.
IsSuffix(seq, all) ==
    /\ Len(seq) <= Len(all)
    /\ seq = SubSeq(all, Len(all) - Len(seq) + 1, Len(all))

Min(a, b) == IF a < b THEN a ELSE b

Max(a, b) == IF a > b THEN a ELSE b

\* C1: after every add_to_history call the history holds at most HistoryCap
\* turns, unless every turn it holds has role system.
C1_CapUnlessAllSystem ==
    pc = "history" =>
        \/ Len(message_history) <= HistoryCap
        \/ \A i \in 1..Len(message_history) : IsSystem(message_history[i])

\* A trim has run and has left a full history that still holds non-system turns.
C1_Witness ==
    /\ pc = "history"
    /\ Len(appended) > HistoryCap
    /\ Len(message_history) = HistoryCap
    /\ \E i \in 1..Len(message_history) : NotSystem(message_history[i])

\* C2: the history holds every system turn ever appended, and of the
\* non-system turns appended the most recent k, where k is what the cap leaves
\* beside the system turns: min(non-system appended, max(0, cap - system)).
C2_SystemKeptOldestEvicted ==
    pc = "history" =>
        LET sys == SelectSeq(appended, IsSystem)
            oth == SelectSeq(appended, NotSystem)
            kept == SelectSeq(message_history, NotSystem)
        IN  /\ SelectSeq(message_history, IsSystem) = sys
            /\ IsSuffix(kept, oth)
            /\ Len(kept) = Min(Len(oth), Max(0, HistoryCap - Len(sys)))

\* A trim has evicted some non-system turn and kept another beside a system turn.
C2_Witness ==
    /\ pc = "history"
    /\ Len(SelectSeq(message_history, NotSystem)) > 0
    /\ Len(SelectSeq(message_history, NotSystem)) < Len(SelectSeq(appended, NotSystem))
    /\ Len(SelectSeq(message_history, IsSystem)) > 0

\* The place of a retained turn in the order of the add_to_history calls.
InsertionIndex(msg) == CHOOSE k \in 1..Len(appended) : appended[k] = msg

\* C3: message_history, which get_ai_response hands to the model provider,
\* holds the retained turns in the order they were appended.
C3_InsertionOrderKept ==
    pc = "history" =>
        \A i, j \in 1..Len(message_history) :
            i < j => InsertionIndex(message_history[i]) < InsertionIndex(message_history[j])

-----------------------------------------------------------------------------
(* SpecExtract: extract_choices applied once to a text of at most MaxLines  *)
(* lines, each taken from LinePool, joined by newlines.                     *)

MaxLines == 3

LinePool ==
    { "",
      "I see a door.",
      "CHOICE A: Go left",
      "CHOICE B: Go right",
      "CHOICE B: Run: fast \t",
      "CHOICE A:",
      "The CHOICE is yours: decide",
      "CHOICE C",
      "- Go left",
      " *  Hide \r",
      "@ Wait",
      "-",
      "1. Open",
      "2. Close" }

RECURSIVE JoinLines(_)
JoinLines(lines) ==
    IF lines = <<>> THEN ""
    ELSE IF Len(lines) = 1 THEN lines[1]
    ELSE lines[1] \o "\n" \o JoinLines(Tail(lines))

Texts == {JoinLines(lines) : lines \in UNION {[1..n -> LinePool] : n \in 0..MaxLines}}

InitExtract ==
    /\ GameStateInit
    /\ Parked("extract")
    /\ ai_message \in Texts
    /\ appended = <<>>
    /\ script = <<>>

ExtractChoices ==
    /\ pc = "extract"
    /\ current_choices' = extract_choices(ai_message)
    /\ pc' = "extracted"
    /\ UNCHANGED <<storyVars, message_history, current_text, is_typing, is_processing,
                   inputVars, running, caller, ai_message, reveal, sent, user_input, envVars,
                   logVars, appended, script>>

NextExtract == ExtractChoices

SpecExtract == InitExtract /\ [][NextExtract]_vars

\* C4: extract_choices returns exactly two choices for every text.
C4_ExactlyTwo ==
    pc = "extracted" => Len(current_choices) = 2

\* extract_choices has returned for a text with more than two tagged lines.
C4_Witness ==
    /\ pc = "extracted"
    /\ Len(current_choices) = 2
    /\ Len(TaggedChoices(ai_message)) > 2

\* s[m-1:n] of Python: the characters m..n of s that exist.
Slice(s, m, n) == SubSeq(s, IF m < 1 THEN 1 ELSE m, IF n > Len(s) THEN Len(s) ELSE n)

\* What the claims say of single lines, stated on the line itself.
HoldsTag(line) ==
    /\ \E i \in 1..Len(line) : Slice(line, i, i + 6) = "CHOICE "
    /\ \E i \in 1..Len(line) : Slice(line, i, i) = ":"

WellFormedA(line) == Slice(line, 1, 10) = "CHOICE A: "

WellFormedB(line) == Slice(line, 1, 10) = "CHOICE B: "

\* X of a line "CHOICE A: X", without the blanks around it.
LabelOf(line) == Strip(Slice(line, 11, Len(line)))

\* C5 as stated: when the text holds one line "CHOICE A: X" and after it one
\* line "CHOICE B: Y", and no other line starting with "CHOICE A:" or
\* "CHOICE B:", extract_choices returns <<X, Y>>, whatever the other lines are.
C5_Original ==
    pc = "extracted" =>
        LET lines == SplitLines(ai_message)
            Marked(line) == Slice(line, 1, 9) \in {"CHOICE A:", "CHOICE B:"}
        IN  \A i, j \in 1..Len(lines) :
                /\ i < j
                /\ WellFormedA(lines[i])
                /\ WellFormedB(lines[j])
                /\ \A k \in 1..Len(lines) : k \notin {i, j} => ~Marked(lines[k])
                => current_choices = <<LabelOf(lines[i]), LabelOf(lines[j])>>

\* C5, amended: when a line "CHOICE A: X" and a later line "CHOICE B: Y" are
\* the first two lines of the text that hold "CHOICE " and a colon,
\* extract_choices returns <<X, Y>>, whatever the other lines are.
C5_FirstTwoTagged ==
    pc = "extracted" =>
        LET lines == SplitLines(ai_message)
        IN  \A i, j \in 1..Len(lines) :
                /\ i < j
                /\ WellFormedA(lines[i])
                /\ WellFormedB(lines[j])
                /\ \A k \in 1..(j - 1) : k # i => ~HoldsTag(lines[k])
                => current_choices = <<LabelOf(lines[i]), LabelOf(lines[j])>>

\* extract_choices has returned for a text whose first tagged lines are a
\* "CHOICE A: X" and a "CHOICE B: Y" line with a colon in Y, among other lines.
C5_Witness ==
    /\ pc = "extracted"
    /\ LET lines == SplitLines(ai_message)
       IN  /\ Len(lines) = 3
           /\ ~HoldsTag(lines[1])
           /\ WellFormedA(lines[2])
           /\ WellFormedB(lines[3])
           /\ current_choices = <<"Go left", "Run: fast">>

\* The lines of a text that a tier reads, and what a tier makes of a line.
TaggedLines(text) == SelectSeq(SplitLines(text), HoldsTag)

BulletLines(text) ==
    LET Bulleted(line) == Slice(Strip(line), 1, 2) \in {"- ", "@ ", "* "}
    IN  SelectSeq(SplitLines(text), Bulleted)

NumberedLines(text) ==
    LET Numbered(line) == Slice(Strip(line), 1, 3) \in {"1. ", "2. "}
    IN  SelectSeq(SplitLines(text), Numbered)

AfterColon(line) ==
    LET c == CHOOSE i \in 1..Len(line) :
                 Slice(line, i, i) = ":" /\ \A j \in 1..(i - 1) : Slice(line, j, j) # ":"
    IN  Strip(Slice(line, c + 1, Len(line)))

AfterPrefix(line, n) == Strip(Slice(Strip(line), n + 1, Len(Strip(line))))

\* C6: the first tier that finds a line decides alone: tagged lines, else
\* bulleted lines, else numbered lines.  Two or more lines of that tier give
\* its first two choices; one line, or no line of any tier, gives the default
\* pair, and the lower tiers are not read.
C6_TierPriorityAndFallback ==
    pc = "extracted" =>
        LET tagged == TaggedLines(ai_message)
            bullet == BulletLines(ai_message)
            number == NumberedLines(ai_message)
            default == <<"Continue the story", "Ask what's happening">>
        IN  current_choices =
                IF tagged # <<>>
                THEN IF Len(tagged) >= 2
                     THEN <<AfterColon(tagged[1]), AfterColon(tagged[2])>> ELSE default
                ELSE IF bullet # <<>>
                THEN IF Len(bullet) >= 2
                     THEN <<AfterPrefix(bullet[1], 2), AfterPrefix(bullet[2], 2)>> ELSE default
                ELSE IF Len(number) >= 2
                     THEN <<AfterPrefix(number[1], 3), AfterPrefix(number[2], 3)>> ELSE default

\* extract_choices has returned the default pair for a text with one tagged
\* line and two bulleted lines: the partial result is dropped, the bullets unread.
C6_Witness ==
    /\ pc = "extracted"
    /\ Len(TaggedLines(ai_message)) = 1
    /\ Len(BulletLines(ai_message)) = 2
    /\ current_choices = DefaultChoices

-----------------------------------------------------------------------------
(* The session: main -> game_loop, its event handlers, process_choice,      *)
(* get_ai_response and display_text_with_typing run as one coroutine; `pc`  *)
(* is the await it is suspended at.  Between two awaits the code runs       *)
(* without interruption, so one action is one such stretch.                 *)
(*                                                                          *)
(*   "start"        game_loop has not run yet                               *)
(*   "loop"         in `while running`, handling `batch` or about to poll   *)
(*   "await_voice"  in get_voice_input, at asyncio.wait_for                 *)
(*   "await_model"  in get_ai_response, at client.chat.completions.create   *)
(*   "typing"       in display_text_with_typing, at asyncio.sleep           *)
(*   "exited"       after pygame.quit()                                     *)
(*                                                                          *)
(* An event is "QUIT", a key ("ESCAPE", "V", "RETURN", "CHAR": the letter   *)
(* x) or "CLICK" (left button).  The player presses no other key: H, D and  *)
(* M only toggle display flags, Backspace only edits input_text.  The mouse *)
(* position is read when an event is handled, as the region it lies in.  A  *)
(* queued event also carries whether is_processing was set when the player  *)
(* caused it (`busy`), which the program does not see.                      *)

Events == {"QUIT", "ESCAPE", "V", "RETURN", "CHAR", "CLICK"}

Regions == {"choice1", "choice2", "input", "elsewhere"}

InputLimit == 50

SystemPrompt == "SYSTEM_PROMPT"

\* The context text of get_ai_response when choices_made is `made`, cut down
\* to its scene and choice-count lines: no code reads the content of a turn back.
Context(made) == "Scene: " \o current_scene \o "; Previous choices: "
                 \o ToString(Cardinality(DOMAIN made))

\* The argument of game_loop's first get_ai_response call (its first sentence).
StartRequest == "Start the story by introducing the setting and main character."

\* The argument process_choice passes to get_ai_response.
ChoiceInput(choice_text) == "I choose: " \o choice_text

NotAvailable == "Voice recognition not available. Please check Azure Speech credentials."

\* What get_voice_input can return when speech is enabled: nothing recognized
\* before the session stopped, an empty recognized text, or a text to submit
\* (the one set on timeout, which is submitted like a recognized one).
VoiceResults == {"Listening...", "", "Sorry, I didn't hear anything."}

\* The texts the model provider answers with: an empty one, and one without
\* choice lines.
Replies == {"", "ok"}

\* str(e) of the exceptions the model provider call raises.
Failures == {"timeout"}

ErrorMessage(e) == "Error communicating with Azure OpenAI: " \o e

\* max(0, min(100, sanity + sanity_change)) without the max.
NewSanityNoFloor(s, sanity_change) == Min(100, s + sanity_change)

\* max(0, min(100, sanity + sanity_change))
NewSanity(s, sanity_change) == Max(0, Min(100, s + sanity_change))

\* f"scene_{len(choices_made)}" one too far.
SceneIdNext(n) == "scene_" \o ToString(n + 1)

\* f"scene_{n}"
SceneId(n) == "scene_" \o ToString(n)

\* choices_made[scene] = choice_text
Record(made, scene, choice_text) ==
    [k \in DOMAIN made \cup {scene} |-> IF k = scene THEN choice_text ELSE made[k]]

\* get_ai_response from its first line to its await of the provider, entered
\* with the history `history`, with choices_made being `made` and with the
\* argument `input`, which it does not read.
BeginSubmit(history, who, made, input) ==
    /\ is_processing' = TRUE
    /\ current_choices' = <<>>
    /\ message_history' = add_to_history(history, "system", Context(made))
    /\ sent' = message_history'
    /\ user_input' = input
    /\ pc' = "await_model"
    /\ caller' = who
    /\ submits' = submits + 1

\* The finally block of get_ai_response and what its caller runs after the
\* await, up to the next event of the batch: for process_choice the sanity
\* and scene updates.
ReturnToCaller ==
    /\ is_processing' = FALSE
    /\ pc' = "loop"
    /\ caller' = "none"
    /\ IF caller = "choice"
       THEN /\ \E sanity_change \in -5..5 : sanity' = NewSanity(sanity, sanity_change)
            /\ current_scene' = SceneId(Cardinality(DOMAIN choices_made))
       ELSE UNCHANGED <<sanity, current_scene>>

\* process_choice(choice_index) up to the await inside get_ai_response.
ProcessChoice(choice_index) ==
    LET choice_text == current_choices[choice_index + 1]
    IN  /\ choices_made' = Record(choices_made, current_scene, choice_text)
        /\ choice_calls' = choice_calls + 1
        /\ BeginSubmit(add_to_history(message_history, "user", choice_text), "choice",
                       choices_made', ChoiceInput(choice_text))

InitGame ==
    /\ GameStateInit
    /\ running = TRUE
    /\ speech_enabled \in BOOLEAN
    /\ pc = "start"
    /\ caller = "none"
    /\ ai_message = ""
    /\ reveal = 0
    /\ sent = <<>>
    /\ user_input = ""
    /\ queue = <<>>
    /\ batch = <<>>
    /\ posted = 0
    /\ appended = <<>>
    /\ returned = "none"
    /\ submits = 0
    /\ choice_calls = 0
    /\ script = <<>>

\* game_loop up to the await inside its first get_ai_response.
StartGame ==
    /\ pc = "start"
    /\ BeginSubmit(add_to_history(message_history, "system", SystemPrompt), "init",
                   choices_made, StartRequest)
    /\ UNCHANGED <<storyVars, current_text, is_typing, inputVars, running, ai_message,
                   reveal, envVars, returned, choice_calls, appended, script>>

\* game_state.current_text += char, with a mistaken order.
TypedInFront(shown, char) == char \o shown

\* game_state.current_text += char
Typed(shown, char) == shown \o char

\* The first "QUIT" or "ESCAPE" of a polled list, which is where the event
\* loop of display_text_with_typing stops reading it; "none" without one.
RECURSIVE FirstStop(_)
FirstStop(events) ==
    IF events = <<>> THEN "none"
    ELSE IF Head(events).key \in {"QUIT", "ESCAPE"} THEN Head(events).key
    ELSE FirstStop(Tail(events))

\* The provider answers.  get_ai_response appends the assistant turn and enters
\* display_text_with_typing, which shows the first character and sleeps; for an
\* empty text its loop has nothing to do and get_ai_response runs to its end.
ModelReplies(text) ==
    /\ pc = "await_model"
    /\ ai_message' = text
    /\ message_history' = add_to_history(message_history, "assistant", text)
    /\ IF text = ""
       THEN /\ current_text' = ""
            /\ is_typing' = FALSE
            /\ reveal' = 0
            /\ current_choices' = extract_choices(text)
            /\ returned' = "ok"
            /\ ReturnToCaller
       ELSE /\ current_text' = Typed("", CharAt(text, 1))
            /\ is_typing' = TRUE
            /\ reveal' = 1
            /\ pc' = "typing"
            /\ UNCHANGED <<current_choices, is_processing, caller, sanity,
                           current_scene, returned>>
    /\ UNCHANGED <<choices_made, inputVars, running, sent, user_input, envVars, submits,
                   choice_calls, appended, script>>

\* The handler of a failed provider call leaving is_processing set (no finally).
ModelFailsNoFinally(e) ==
    /\ pc = "await_model"
    /\ current_text' = ErrorMessage(e)
    /\ returned' = "failed"
    /\ pc' = "loop"
    /\ caller' = "none"
    /\ IF caller = "choice"
       THEN /\ \E sanity_change \in -5..5 : sanity' = NewSanity(sanity, sanity_change)
            /\ current_scene' = SceneId(Cardinality(DOMAIN choices_made))
       ELSE UNCHANGED <<sanity, current_scene>>
    /\ UNCHANGED <<choices_made, message_history, current_choices, is_typing,
                   is_processing, inputVars, running, ai_message, reveal, sent, user_input,
                   envVars, submits, choice_calls, appended, script>>

\* The handler of a failed provider call recording the error as an assistant turn.
ModelFailsRecorded(e) ==
    /\ pc = "await_model"
    /\ current_text' = ErrorMessage(e)
    /\ message_history' = add_to_history(message_history, "assistant", ErrorMessage(e))
    /\ returned' = "failed"
    /\ ReturnToCaller
    /\ UNCHANGED <<choices_made, current_choices, is_typing, inputVars, running,
                   ai_message, reveal, sent, user_input, envVars, submits, choice_calls,
                   appended, script>>

\* The provider call raises: the except block sets the error text, the finally
\* block clears is_processing, and the caller goes on.
ModelFails(e) ==
    /\ pc = "await_model"
    /\ current_text' = ErrorMessage(e)
    /\ returned' = "failed"
    /\ ReturnToCaller
    /\ UNCHANGED <<choices_made, message_history, current_choices, is_typing,
                   inputVars, running, ai_message, reveal, sent, user_input, envVars, submits,
                   choice_calls, appended, script>>

\* display_text_with_typing wakes from its sleep and reads pygame.event.get():
\* QUIT leaves the program (SystemExit passes `except Exception`, the finally
\* block runs), ESCAPE shows the whole text and returns, any other event is
\* dropped.  Then it shows the next character and sleeps, or it is done and
\* get_ai_response extracts the choices and returns.
TypingStep ==
    /\ pc = "typing"
    /\ queue' = <<>>
    /\ \/ /\ FirstStop(queue) = "QUIT"
          /\ pc' = "exited"
          /\ is_processing' = FALSE
          /\ UNCHANGED <<current_text, is_typing, reveal, current_choices, caller,
                         sanity, current_scene, returned>>
       \/ /\ FirstStop(queue) = "ESCAPE"
          /\ is_typing' = FALSE
          /\ current_text' = ai_message
          /\ current_choices' = extract_choices(ai_message)
          /\ returned' = "ok"
          /\ ReturnToCaller
          /\ UNCHANGED reveal
       \/ /\ FirstStop(queue) = "none"
          /\ reveal < Len(ai_message)
          /\ current_text' = Typed(current_text, CharAt(ai_message, reveal + 1))
          /\ reveal' = reveal + 1
          /\ UNCHANGED <<is_typing, current_choices, is_processing, pc, caller,
                         sanity, current_scene, returned>>
       \/ /\ FirstStop(queue) = "none"
          /\ reveal = Len(ai_message)
          /\ is_typing' = FALSE
          /\ current_choices' = extract_choices(ai_message)
          /\ returned' = "ok"
          /\ ReturnToCaller
          /\ UNCHANGED <<current_text, reveal>>
    /\ UNCHANGED <<choices_made, message_history, inputVars, running, ai_message,
                   sent, user_input, speech_enabled, batch, posted, submits, choice_calls,
                   appended, script>>

-----------------------------------------------------------------------------
(* The player, and game_loop's handling of one event. *)

MaxEvents == 3

MaxQueue == 2

\* The player causes an event; pygame queues it until some pygame.event.get().
PostEvent(key) ==
    /\ pc # "exited"
    /\ posted < MaxEvents
    /\ Len(queue) < MaxQueue
    /\ queue' = Append(queue, [key |-> key, busy |-> is_processing])
    /\ posted' = posted + 1
    /\ UNCHANGED <<storyVars, message_history, displayVars, inputVars, coVars,
                   speech_enabled, batch, logVars, appended, script>>

\* `for event in pygame.event.get()` at the top of a frame.
PollEvents ==
    /\ pc = "loop"
    /\ batch = <<>>
    /\ running
    /\ queue # <<>>
    /\ batch' = queue
    /\ queue' = <<>>
    /\ UNCHANGED <<storyVars, message_history, displayVars, inputVars, coVars,
                   speech_enabled, posted, logVars, appended, script>>

\* The batch is handled and `running` is false: the loop ends, pygame.quit().
EndLoop ==
    /\ pc = "loop"
    /\ batch = <<>>
    /\ ~running
    /\ pc' = "exited"
    /\ UNCHANGED <<storyVars, message_history, displayVars, inputVars, running,
                   caller, ai_message, reveal, sent, user_input, envVars, logVars, appended, script>>

\* The next event of the batch is a `key` event; it is taken off.
Handling(key) ==
    /\ pc = "loop"
    /\ batch # <<>>
    /\ Head(batch).key = key
    /\ batch' = Tail(batch)

\* The text-input branch `elif game_state.input_active:` for a key whose
\* event.unicode is `unicode`.
TypeKey(unicode) ==
    /\ input_text' =
           IF input_active /\ Len(input_text) < InputLimit
           THEN input_text \o unicode
           ELSE input_text
    /\ UNCHANGED <<storyVars, message_history, displayVars, input_active, voice_active,
                   coVars, speech_enabled, queue, posted, logVars, appended, script>>

\* pygame.QUIT, or the Escape key: running = False; the batch is still handled.
HandleQuit ==
    /\ Handling("QUIT") \/ Handling("ESCAPE")
    /\ running' = FALSE
    /\ UNCHANGED <<storyVars, message_history, displayVars, inputVars, pc, caller,
                   ai_message, reveal, sent, user_input, speech_enabled, queue, posted, logVars,
                   appended, script>>

\* The V key: get_voice_input, which returns at once without speech services
\* (and its text is then submitted) and otherwise waits for the recognizer.
HandleVoiceKey ==
    /\ Handling("V")
    /\ \/ /\ ~is_processing
          /\ ~speech_enabled
          /\ BeginSubmit(add_to_history(message_history, "user", NotAvailable), "voice",
                         choices_made, NotAvailable)
          /\ UNCHANGED <<storyVars, current_text, is_typing, inputVars, running,
                         ai_message, reveal, speech_enabled, queue, posted, returned,
                         choice_calls, appended, script>>
       \/ /\ ~is_processing
          /\ speech_enabled
          /\ voice_active' = TRUE
          /\ pc' = "await_voice"
          /\ UNCHANGED <<storyVars, message_history, displayVars, input_text,
                         input_active, running, caller, ai_message, reveal, sent, user_input,
                         speech_enabled, queue, posted, logVars, appended, script>>
       \/ /\ is_processing
          /\ TypeKey("v")

\* get_voice_input returns recognized_text; the handler submits it unless it is
\* empty or still "Listening...".
VoiceDone(recognized_text) ==
    /\ pc = "await_voice"
    /\ voice_active' = FALSE
    /\ \/ /\ recognized_text \notin {"", "Listening..."}
          /\ BeginSubmit(add_to_history(message_history, "user", recognized_text), "voice",
                         choices_made, recognized_text)
          /\ UNCHANGED <<storyVars, current_text, is_typing, input_text, input_active,
                         running, ai_message, reveal, envVars, returned, choice_calls,
                         appended, script>>
       \/ /\ recognized_text \in {"", "Listening..."}
          /\ pc' = "loop"
          /\ UNCHANGED <<storyVars, message_history, displayVars, input_text,
                         input_active, running, caller, ai_message, reveal, sent, user_input,
                         envVars, logVars, appended, script>>

\* What is left unchanged by a handler that only calls process_choice.
ChoiceFrame ==
    UNCHANGED <<current_scene, sanity, current_text, is_typing, inputVars, running,
                ai_message, reveal, speech_enabled, queue, posted, returned,
                appended, script>>

\* What is left unchanged by a handler that does nothing.
Ignored ==
    UNCHANGED <<storyVars, message_history, displayVars, inputVars, coVars,
                speech_enabled, queue, posted, logVars, appended, script>>

\* The Return key with the mouse in `region`: a choice under the mouse, or the
\* typed text, is submitted.
HandleReturn(region) ==
    /\ Handling("RETURN")
    /\ \/ /\ ~is_processing /\ current_choices # <<>> /\ ~input_active
          /\ region = "choice1" /\ Len(current_choices) >= 1
          /\ ProcessChoice(0)
          /\ ChoiceFrame
       \/ /\ ~is_processing /\ current_choices # <<>> /\ ~input_active
          /\ region = "choice2" /\ Len(current_choices) >= 2
          /\ ProcessChoice(1)
          /\ ChoiceFrame
       \/ /\ ~is_processing /\ current_choices # <<>> /\ ~input_active
          /\ region \notin {"choice1", "choice2"}
          /\ Ignored
       \/ /\ ~is_processing /\ input_active /\ input_text # ""
          /\ input_text' = ""
          /\ input_active' = FALSE
          /\ BeginSubmit(add_to_history(message_history, "user", input_text), "typed",
                         choices_made, input_text)
          /\ UNCHANGED <<storyVars, current_text, is_typing, voice_active, running,
                         ai_message, reveal, speech_enabled, queue, posted, returned,
                         choice_calls, appended, script>>
       \/ /\ ~is_processing
          /\ IF input_active THEN input_text = "" ELSE current_choices = <<>>
          /\ Ignored
       \/ /\ is_processing
          /\ TypeKey("\r")

\* A left click with the mouse in `region`: a choice is submitted, or the input
\* area is activated; both only when choices are shown.
HandleClick(region) ==
    /\ Handling("CLICK")
    /\ \/ /\ ~is_processing /\ current_choices # <<>>
          /\ region = "choice1" /\ Len(current_choices) >= 1
          /\ ProcessChoice(0)
          /\ ChoiceFrame
       \/ /\ ~is_processing /\ current_choices # <<>>
          /\ region = "choice2" /\ Len(current_choices) >= 2
          /\ ProcessChoice(1)
          /\ ChoiceFrame
       \/ /\ ~is_processing /\ current_choices # <<>>
          /\ region = "input"
          /\ input_active' = TRUE
          /\ UNCHANGED <<storyVars, message_history, displayVars, input_text,
                         voice_active, coVars, speech_enabled, queue, posted, logVars,
                         appended, script>>
       \/ /\ is_processing \/ current_choices = <<>> \/ region = "elsewhere"
          /\ Ignored

\* Any other key: typed into the input area when it is active.
HandleKey ==
    /\ Handling("CHAR")
    /\ TypeKey("x")

NextGame ==
    \/ StartGame
    \/ \E key \in Events : PostEvent(key)
    \/ PollEvents
    \/ EndLoop
    \/ HandleQuit
    \/ HandleVoiceKey
    \/ \E recognized_text \in VoiceResults : VoiceDone(recognized_text)
    \/ \E region \in Regions : HandleReturn(region)
    \/ \E region \in Regions : HandleClick(region)
    \/ HandleKey
    \/ \E text \in Replies : ModelReplies(text)
    \/ \E e \in Failures : ModelFails(e)
    \/ TypingStep

SpecGame == InitGame /\ [][NextGame]_vars

-----------------------------------------------------------------------------
(* SpecSession: a long session of a player who only clicks the first        *)
(* choice, and only when the loop is idle; the provider answers every       *)
(* request with SessionReply or fails.                                      *)

MaxClicks == 22

SessionReply == "- a\n* b"

PostClick ==
    /\ pc = "loop"
    /\ queue = <<>>
    /\ batch = <<>>
    /\ posted < MaxClicks
    /\ queue' = <<[key |-> "CLICK", busy |-> is_processing]>>
    /\ posted' = posted + 1
    /\ UNCHANGED <<storyVars, message_history, displayVars, inputVars, coVars,
                   speech_enabled, batch, logVars, appended, script>>

NextSession ==
    \/ StartGame
    \/ PostClick
    \/ PollEvents
    \/ HandleClick("choice1")
    \/ ModelReplies(SessionReply)
    \/ \E e \in Failures : ModelFails(e)
    \/ TypingStep

SpecSession == InitGame /\ [][NextSession]_vars

\* C7: sanity is an integer from 0 to 100 in every state of a session.
C7_SanityInRange == sanity \in 0..100

\* process_choice has run more than 20 times and has brought sanity down to 0.
C7_Witness ==
    /\ pc = "loop"
    /\ choice_calls > 20
    /\ sanity = 0

\* The scene id under which the k-th process_choice call records its choice.
SceneOfCall(k) == IF k = 1 THEN "intro" ELSE "scene_" \o ToString(k - 1)

\* C8: a process_choice call records the chosen text under the scene id of that
\* moment and changes no other entry; once it has returned, after n calls,
\* current_scene is "scene_<n>" and choices_made holds exactly the n entries
\* of the calls so far.
C8_SceneFollowsChoiceCount ==
    /\ [](/\ DOMAIN choices_made = {SceneOfCall(k) : k \in 1..choice_calls}
          /\ Cardinality(DOMAIN choices_made) = choice_calls
          /\ caller # "choice" =>
                current_scene = IF choice_calls = 0 THEN "intro"
                                ELSE "scene_" \o ToString(choice_calls))
    /\ [][choice_calls' # choice_calls =>
            /\ choice_calls' = choice_calls + 1
            /\ current_scene \notin DOMAIN choices_made
            /\ \E i \in 1..Len(current_choices) :
                   choices_made'[current_scene] = current_choices[i]
            /\ \A scene \in DOMAIN choices_made :
                   choices_made'[scene] = choices_made[scene]]_vars

\* The 22nd process_choice call has returned.
C8_Witness ==
    /\ pc = "loop"
    /\ choice_calls = 22
    /\ current_scene = "scene_22"
    /\ Cardinality(DOMAIN choices_made) = 22

-----------------------------------------------------------------------------
(* Claims on the session. *)

\* A get_ai_response call has started and has not returned.
Outstanding == pc \in {"await_model", "typing"}

C10_FailureKeepsSession ==
    [][(pc = "await_model" /\ pc' = "loop" /\ returned' = "failed")
         => /\ current_text' \in {ErrorMessage(e) : e \in Failures}
            /\ message_history' = message_history
            /\ message_history' = sent
            /\ \E i \in 1..Len(sent) : sent[i] = Turn("system", Context(choices_made))
            /\ ~is_processing'
            /\ running' = running]_vars

\* A submission of a player input has failed and returned to the loop.
C10_Witness ==
    /\ pc = "loop"
    /\ returned = "failed"
    /\ submits >= 2
    /\ ~is_processing
    /\ message_history = sent
    /\ current_text = ErrorMessage("timeout")

\* C11: once a turn has completed (a get_ai_response call has returned, the
\* loop goes on and is_processing is false), current_choices holds exactly
\* two choices.
C11_TwoChoicesAfterTurn ==
    (pc \in {"loop", "await_voice"} /\ returned # "none" /\ ~is_processing)
        => Len(current_choices) = 2

\* The same for the turns whose provider call answered.
C11_TwoChoicesAfterReply ==
    (pc \in {"loop", "await_voice"} /\ returned = "ok" /\ ~is_processing)
        => Len(current_choices) = 2

\* The history sent to the provider ends with a user turn carrying the input
\* of this get_ai_response call (for a clicked choice: the chosen text),
\* followed by the context turn.
InputThenContext ==
    /\ Len(sent) >= 2
    /\ sent[Len(sent) - 1].role = "user"
    /\ \/ sent[Len(sent) - 1].content = user_input
       \/ ChoiceInput(sent[Len(sent) - 1].content) = user_input
    /\ sent[Len(sent)] = Turn("system", Context(choices_made))

\* C12: whenever the model provider is invoked, the history it is sent holds
\* the input this submission was given as a user turn, followed by the system
\* context turn.
C12_UserTurnBeforeCall == pc = "await_model" => InputThenContext

\* The same for the submissions of a clicked choice, typed text and voice
\* text, as long as the history is shorter than the cap (no trim has run).
C12_PlayerTurnBeforeCall ==
    (pc = "await_model" /\ caller # "init" /\ Len(sent) < HistoryCap)
        => InputThenContext

\* display_text_with_typing is running on ai_message.
Revealing == pc = "typing"

\* While the reveal runs, is_typing is set and current_text is the prefix of
\* the text shown so far.
PrefixWhileRevealing ==
    Revealing => /\ is_typing
                 /\ reveal \in 1..Len(ai_message)
                 /\ current_text = SubSeq(ai_message, 1, reveal)

\* C13 as stated: while the reveal runs current_text is a prefix of the text,
\* and however the reveal ends, it ends with the full text in current_text
\* and is_typing false.
C13_Original ==
    /\ []PrefixWhileRevealing
    /\ [][(Revealing /\ ~Revealing') =>
            (current_text' = ai_message /\ ~is_typing')]_vars

\* C13, amended: while the reveal runs current_text is a prefix of the text.
\* A reveal that returns, after its last character or at once when it reads
\* Escape, returns with the full text in current_text and is_typing false (so
\* does the reveal of an empty text, which shows nothing); a reveal that reads
\* a QUIT event before any Escape leaves the program as it is, with the
\* prefix shown so far and is_typing set.
C13_RevealEndsWithFullText ==
    /\ []PrefixWhileRevealing
    /\ [][(Revealing /\ ~Revealing') =>
            IF FirstStop(queue) = "QUIT"
            THEN /\ pc' = "exited"
                 /\ current_text' = current_text
                 /\ is_typing'
            ELSE /\ pc' = "loop"
                 /\ current_text' = ai_message
                 /\ ~is_typing'
                 /\ FirstStop(queue) = "none" => reveal = Len(ai_message)]_vars
    /\ [][(Revealing /\ FirstStop(queue) = "ESCAPE" /\ queue' = <<>>)
            => ~Revealing']_vars
    /\ [][(pc = "await_model" /\ pc' = "loop" /\ returned' = "ok") =>
            (ai_message' = "" /\ current_text' = "" /\ ~is_typing')]_vars

\* A reveal has read Escape before its last character and has returned with
\* the full text shown.
C13_Witness ==
    /\ pc = "loop"
    /\ returned = "ok"
    /\ reveal \in 1..(Len(ai_message) - 1)
    /\ current_text = ai_message
    /\ ~is_typing

\* The system turns of a history, and whether it holds nothing else.
SystemTurns(history) == SelectSeq(history, IsSystem)

OnlySystem(history) == \A i \in 1..Len(history) : history[i].role = "system"

\* C14: a history retaining 20 or more system turns retains no other turn (an
\* assistant turn appended in such a state is evicted by the same call, which
\* leaves the history as it was).  Every get_ai_response call adds one system
\* turn that is never evicted, so the history holds submits + 1 of them: fewer
\* than 20 before the 19th submission, and from the 19th on the provider is
\* sent system turns only, submits + 1 of them, one more with every submission.
C14_SystemTurnsCrowdOut ==
    /\ [](Len(SystemTurns(message_history)) >= HistoryCap => OnlySystem(message_history))
    /\ [](submits >= 1 => Len(SystemTurns(message_history)) = submits + 1)
    /\ []((pc = "await_model" /\ submits >= HistoryCap - 1)
            => (OnlySystem(sent) /\ Len(sent) = submits + 1))
    /\ []((pc = "await_model" /\ submits \in 2..(HistoryCap - 2)) => ~OnlySystem(sent))
    /\ [][(pc = "await_model" /\ pc' = "typing"
            /\ Len(SystemTurns(message_history)) >= HistoryCap)
           => message_history' = message_history]_vars

\* The provider has answered the 19th submission and its assistant turn is
\* not in the history, which holds 20 system turns.
C14_Witness ==
    /\ pc = "typing"
    /\ submits = HistoryCap - 1
    /\ ai_message = SessionReply
    /\ Len(message_history) = HistoryCap
    /\ OnlySystem(message_history)

=============================================================================
